---- MODULE Spec2Model ----
(***************************************************************************)
(* AVR dice (src/dice.c): the firmware of a seven-LED electronic dice.     *)
(*                                                                         *)
(* The program is one foreground thread (main and the functions it calls)  *)
(* and one interrupt handler, ISR(PCINT1_vect).  The state is the hardware *)
(* registers the code touches, the locals of main and of the function      *)
(* being executed, and pc, the foreground's position.  The target is an    *)
(* 8-bit AVR: int is 16 bits wide, so uint16_t operands are never promoted *)
(* to a wider signed type and all uint16_t arithmetic is modulo 2^16.      *)
(*                                                                         *)
(* Busy-wait loops whose iterations change nothing but their counter (the  *)
(* active wait of wait_or_sleep, the millisecond loop inside throw, the    *)
(* delay loop of beep) are one action each, which runs the loop to its     *)
(* exit: by a poll that samples the button pressed, or by the end of the   *)
(* count.  Locals are put back to a fixed value when their function        *)
(* returns.                                                                *)
(***************************************************************************)
EXTENDS Integers, Sequences, FiniteSets, TLC

\* ---------------------------------------------------------------- bounds
\* The button is sampled pressed by spin at most MaxHold times in one run.
MaxHold == 2

\* ------------------------------------------------------- program constants
FACES == 6
WAIT_BEFORE_SLEEP == 10
BUTTON == 1
BEEPER == 0
PB2 == 2
DimCycles == 127
Word == 65536

DOT(b) == 2 ^ b

\* A variant of faces whose four lights the left column instead of the corners.
faces_lopsided ==
  << DOT(3),
     DOT(0) + DOT(6),
     DOT(1) + DOT(3) + DOT(5),
     DOT(0) + DOT(2) + DOT(5) + DOT(6),
     DOT(0) + DOT(1) + DOT(3) + DOT(5) + DOT(6),
     DOT(0) + DOT(1) + DOT(2) + DOT(4) + DOT(5) + DOT(6) >>

faces ==
  << DOT(3),
     DOT(0) + DOT(6),
     DOT(1) + DOT(3) + DOT(5),
     DOT(0) + DOT(1) + DOT(5) + DOT(6),
     DOT(0) + DOT(1) + DOT(3) + DOT(5) + DOT(6),
     DOT(0) + DOT(1) + DOT(2) + DOT(4) + DOT(5) + DOT(6) >>

spin_sequence ==
  << DOT(1) + DOT(0),
     DOT(4) + DOT(1),
     DOT(6) + DOT(4),
     DOT(5) + DOT(6),
     DOT(2) + DOT(5),
     DOT(0) + DOT(2) >>

intensity_table ==
  << 0, 0, 0, 0,
     0, 0, 0, 0,
     1, 1, 1, 1,
     2, 2, 3, 3,
     4, 5, 6, 7,
     8, 9, 11, 12,
     14, 16, 18, 20,
     22, 25, 28, 30,
     33, 37, 40, 44,
     48, 52, 56, 60,
     65, 70, 76, 81,
     87, 93, 99, 106,
     113, 120, 127, 135,
     143, 152, 161, 170,
     179, 189, 199, 209,
     220, 231, 243, 255 >>

\* uint16_t: the value kept modulo 2^16.
U16(x) == x % Word

VARIABLES
  pc,             \* position of the foreground
  seed,           \* main: seed (16 bits, kept as 0..65535)
  previous_seed,  \* main: previous_seed
  button,         \* level of the button pin PB1 (TRUE: pressed)
  held,           \* number of times spin has sampled the button pressed
  PORTA,          \* the pip display register
  DDRA,           \* set of PORTA bits configured as outputs
  PORTB,          \* set of PORTB bits driven high
  DDRB,           \* set of PORTB bits configured as outputs
  OCR0A,          \* timer 0 compare register: the decoration duty
  I,              \* global interrupt flag of SREG
  PCINT9,         \* PCMSK1 bit of the button pin
  PCIE1,          \* GIMSK pin-change group enable
  SE,             \* sleep-enable bit
  PCIF1,          \* pin-change interrupt flag (a latched edge)
  len,            \* beep: len
  beep_ret,       \* beep: where it returns to
  sp_seed,        \* spin: seed (the parameter)
  s0,             \* spin: the parameter's value at entry
  k,              \* spin: number of increments made by this call
  porta0,         \* PORTA at entry of the running spin or throw
  portb0,         \* PORTB at entry of the running spin
  t_seed,         \* throw: seed
  t_prev,         \* throw: previous_seed
  face,           \* throw: face
  stop_at,        \* throw: stop_at
  quotient,       \* throw: quotient
  duration,       \* throw: duration
  delay,          \* throw: delay
  delay0,         \* throw: the value delay was initialised with
  n,              \* throw: loop iterations completed by this call
  shown,          \* throw: faces written to the display by this call
  beeps,          \* throw: beeps emitted by this call
  last_beep,      \* throw: length of the last beep emitted (0: none)
  ret,            \* throw: the value returned ("none" while running)
  value,          \* fade: value
  duty_first,     \* fade: first duty written by this call (-1: none)
  duty_down,      \* fade: no duty written by this call exceeded the one before
  unseen,         \* fade: longest time (ms) in this call from the button going
                  \* down to the next sample of the button (0: never went down)
  a,              \* wait_or_sleep: a
  figure,         \* wait_or_sleep: figure
  dc,             \* wait_or_sleep: dc
  timed_out,      \* wait_or_sleep: the active wait ran all its iterations
  dims,           \* wait_or_sleep: dim cycles completed by this call
  sleeps,         \* wait_or_sleep: times the sleep instruction put the device to sleep
  edge_pc         \* sleep: pc at which the pending pin change was latched

hw == << PORTA, DDRA, PORTB, DDRB, OCR0A >>
irq == << I, PCINT9, PCIE1, SE, PCIF1 >>
mainv == << seed, previous_seed >>
beepv == << len, beep_ret >>
spinv == << sp_seed, s0, k, portb0 >>
throwv == << t_seed, t_prev, face, stop_at, quotient, duration, delay, delay0,
             n, shown, beeps, last_beep, ret >>
fadev == << value, duty_first, duty_down, unseen >>
waitv == << a, figure, dc, timed_out, dims, sleeps, edge_pc >>
vars == << pc, button, held, porta0, hw, irq, mainv, beepv, spinv, throwv, fadev, waitv >>


\* --------------------------------------------------------------- helpers
\* The bits set in an 8-bit register value.
Bits(x) == { b \in 0..7 : (x \div (2 ^ b)) % 2 = 1 }

\* set_high(reg, bit) and set_low(reg, bit) on a register kept as a bit set.
set_high(reg, bit) == reg \cup {bit}
set_low(reg, bit) == reg \ {bit}

\* button_down() returning b: the pin is at level b when it is read.  A level
\* change on the pin latches the pin-change flag when PCINT9 is set.
button_down(b) ==
  /\ button' = b
  /\ PCIF1' = (PCIF1 \/ (PCINT9 /\ b # button))

\* Locals of the functions, as they are left when the function returns.
beep_idle == len' = 0 /\ beep_ret' = "none"
wait_idle ==
  /\ a' = 0 /\ figure' = 0 /\ dc' = 0 /\ timed_out' = FALSE
  /\ dims' = 0 /\ sleeps' = 0 /\ edge_pc' = "none"
throw_idle ==
  /\ t_seed' = 0 /\ t_prev' = 0 /\ face' = 0 /\ stop_at' = 0 /\ quotient' = 0
  /\ duration' = 0 /\ delay' = 0 /\ delay0' = 0 /\ n' = 0 /\ shown' = 0
  /\ beeps' = 0 /\ last_beep' = 0 /\ ret' = "none"
fade_idle == value' = 0 /\ duty_first' = -1 /\ duty_down' = TRUE /\ unseen' = 0

\* ------------------------------------------------------------------ reset
\* The device at power-on: registers cleared, interrupts off, main about to
\* run.  The button may be held when the battery is plugged in.
Init ==
  /\ pc = "main_init"
  /\ seed = 0 /\ previous_seed = 0
  /\ button \in BOOLEAN
  /\ held = 0
  /\ PORTA = 0 /\ DDRA = {} /\ PORTB = {} /\ DDRB = {} /\ OCR0A = 0
  /\ I = FALSE /\ PCINT9 = FALSE /\ PCIE1 = FALSE /\ SE = FALSE /\ PCIF1 = FALSE
  /\ len = 0 /\ beep_ret = "none"
  /\ sp_seed = 0 /\ s0 = 0 /\ k = 0 /\ porta0 = 0 /\ portb0 = {}
  /\ t_seed = 0 /\ t_prev = 0 /\ face = 0 /\ stop_at = 0 /\ quotient = 0
  /\ duration = 0 /\ delay = 0 /\ delay0 = 0 /\ n = 0 /\ shown = 0
  /\ beeps = 0 /\ last_beep = 0 /\ ret = "none"
  /\ value = 0 /\ duty_first = -1 /\ duty_down = TRUE /\ unseen = 0
  /\ a = 0 /\ figure = 0 /\ dc = 0 /\ timed_out = FALSE
  /\ dims = 0 /\ sleeps = 0 /\ edge_pc = "none"

\* ------------------------------------------------------------------- beep
\* beep(l) called with the caller resuming at r.
call_beep(l, r) == len' = l /\ beep_ret' = r /\ pc' = "beep"

\* set_high(PORTB, BEEPER)
beep_on ==
  /\ pc = "beep"
  /\ PORTB' = set_high(PORTB, BEEPER)
  /\ beeps' = beeps + 1
  /\ last_beep' = len
  /\ pc' = "beep_delay"
  /\ UNCHANGED << button, held, porta0, PORTA, DDRA, DDRB, OCR0A, irq, mainv,
                  beepv, spinv, fadev, waitv >>
  /\ UNCHANGED << t_seed, t_prev, face, stop_at, quotient, duration, delay,
                  delay0, n, shown, ret >>

\* A variant of beep_off that returns with the pin still high.
beep_off_high ==
  /\ pc = "beep_delay"
  /\ pc' = beep_ret
  /\ beep_idle
  /\ UNCHANGED << button, held, porta0, hw, irq, mainv, spinv, throwv, fadev, waitv >>

\* the len delays of one millisecond, then set_low(PORTB, BEEPER) and return
beep_off ==
  /\ pc = "beep_delay"
  /\ PORTB' = set_low(PORTB, BEEPER)
  /\ pc' = beep_ret
  /\ beep_idle
  /\ UNCHANGED << button, held, porta0, PORTA, DDRA, DDRB, OCR0A, irq, mainv,
                  spinv, throwv, fadev, waitv >>

\* ---------------------------------------------------------------- welcome
\* PORTA = 0b01111111; beep(200)
welcome_on ==
  /\ pc = "welcome"
  /\ PORTA' = 127
  /\ call_beep(200, "welcome_off")
  /\ UNCHANGED << button, held, porta0, DDRA, PORTB, DDRB, OCR0A, irq, mainv,
                  spinv, throwv, fadev, waitv >>

\* PORTA = 0, and welcome returns to main
welcome_off ==
  /\ pc = "welcome_off"
  /\ PORTA' = 0
  /\ pc' = "main_locals"
  /\ UNCHANGED << button, held, porta0, DDRA, PORTB, DDRB, OCR0A, irq, mainv,
                  beepv, spinv, throwv, fadev, waitv >>

\* ---------------------------------------------------------- wait_or_sleep
Wait0 == 1000 * WAIT_BEFORE_SLEEP

\* The active wait, while (wait-- > 0) { if (button_down()) return; ... },
\* entered with wait = Wait0.  Either one of its Wait0 polls samples the
\* button pressed and wait_or_sleep returns, or every poll samples it
\* released, wait reaches 0 and figure = PORTA is taken.
wait_active ==
  /\ pc = "wait"
  /\ \/ /\ Wait0 > 0
        /\ button_down(TRUE)
        /\ pc' = "main_spin"
        /\ wait_idle
     \/ /\ button_down(FALSE)
        /\ pc' = "dim_on"
        /\ figure' = PORTA
        /\ a' = 0
        /\ timed_out' = TRUE
        /\ UNCHANGED << dc, dims, sleeps, edge_pc >>
  /\ UNCHANGED << held, porta0, hw, I, PCINT9, PCIE1, SE, mainv, beepv, spinv,
                  throwv, fadev >>

\* A variant of duty_cycle that steps every second cycle.
duty_cycle_fine(x) == (32 - (x \div (128 \div 64))) % 256

\* uint8_t dc = 32 - a / (128 / 32)
duty_cycle(x) == (32 - (x \div (128 \div 32))) % 256

\* One dim cycle, first half: the loop test, dc, display_figure(figure) and
\* the dc delays; when a has reached the end of the loop, sleep() is called.
dim_on ==
  /\ pc = "dim_on"
  /\ IF a < DimCycles
       THEN /\ dc' = duty_cycle(a)
            /\ PORTA' = figure
            /\ pc' = "dim_off"
       ELSE /\ pc' = "sleep_clear"
            /\ UNCHANGED << dc, PORTA >>
  /\ UNCHANGED << button, held, porta0, DDRA, PORTB, DDRB, OCR0A, irq, mainv,
                  beepv, spinv, throwv, fadev,
                  a, figure, timed_out, dims, sleeps, edge_pc >>

\* dim_off with the return of its poll left out: a pressed sample is ignored.
dim_off_noreturn ==
  /\ pc = "dim_off"
  /\ PORTA' = 0
  /\ \E b \in BOOLEAN :
       /\ button_down(b)
       /\ pc' = "dim_on"
       /\ a' = a + 1
       /\ dims' = dims + 1
       /\ UNCHANGED << figure, dc, timed_out, sleeps, edge_pc >>
  /\ UNCHANGED << held, porta0, DDRA, PORTB, DDRB, OCR0A, I, PCINT9, PCIE1, SE,
                  mainv, beepv, spinv, throwv, fadev >>

\* One dim cycle, second half: display_figure(0), the 32 - dc delays, and the
\* poll of the button, which returns when it is pressed; a++ otherwise.
dim_off ==
  /\ pc = "dim_off"
  /\ PORTA' = 0
  /\ \E b \in BOOLEAN :
       /\ button_down(b)
       /\ IF b
            THEN /\ pc' = "main_spin"
                 /\ wait_idle
            ELSE /\ pc' = "dim_on"
                 /\ a' = a + 1
                 /\ dims' = dims + 1
                 /\ UNCHANGED << figure, dc, timed_out, sleeps, edge_pc >>
  /\ UNCHANGED << held, porta0, DDRA, PORTB, DDRB, OCR0A, I, PCINT9, PCIE1, SE,
                  mainv, beepv, spinv, throwv, fadev >>

\* ------------------------------------------------------------------ sleep
sleep_rest == << button, held, porta0, mainv, beepv, spinv, throwv, fadev, waitv >>

\* PORTA = 0
sleep_clear ==
  /\ pc = "sleep_clear"
  /\ PORTA' = 0
  /\ pc' = "sleep_cli"
  /\ UNCHANGED << DDRA, PORTB, DDRB, OCR0A, irq, sleep_rest >>

\* sleep_cli with the cli() left out.
sleep_cli_missing ==
  /\ pc = "sleep_cli"
  /\ pc' = "sleep_pcmsk"
  /\ UNCHANGED << hw, irq, sleep_rest >>

\* cli()
sleep_cli ==
  /\ pc = "sleep_cli"
  /\ I' = FALSE
  /\ pc' = "sleep_pcmsk"
  /\ UNCHANGED << hw, PCINT9, PCIE1, SE, PCIF1, sleep_rest >>

\* set_high(PCMSK1, PCINT9)
sleep_pcmsk ==
  /\ pc = "sleep_pcmsk"
  /\ PCINT9' = TRUE
  /\ pc' = "sleep_gimsk"
  /\ UNCHANGED << hw, I, PCIE1, SE, PCIF1, sleep_rest >>

\* sleep_gimsk with the group enable left out.
sleep_gimsk_missing ==
  /\ pc = "sleep_gimsk"
  /\ pc' = "sleep_enable"
  /\ UNCHANGED << hw, irq, sleep_rest >>

\* set_high(GIMSK, PCIE1)
sleep_gimsk ==
  /\ pc = "sleep_gimsk"
  /\ PCIE1' = TRUE
  /\ pc' = "sleep_enable"
  /\ UNCHANGED << hw, I, PCINT9, SE, PCIF1, sleep_rest >>

\* sleep_enable(); sleep_bod_disable()
sleep_enable ==
  /\ pc = "sleep_enable"
  /\ SE' = TRUE
  /\ pc' = "sleep_sei"
  /\ UNCHANGED << hw, I, PCINT9, PCIE1, PCIF1, sleep_rest >>

\* sei()
sleep_sei ==
  /\ pc = "sleep_sei"
  /\ I' = TRUE
  /\ pc' = "sleep_cpu"
  /\ UNCHANGED << hw, PCINT9, PCIE1, SE, PCIF1, sleep_rest >>

\* sleep_cpu(): the SLEEP instruction halts the device when SE is set and is a
\* no-operation otherwise.
sleep_cpu ==
  /\ pc = "sleep_cpu"
  /\ IF SE
       THEN pc' = "sleeping" /\ sleeps' = sleeps + 1
       ELSE pc' = "sleep_ret" /\ UNCHANGED sleeps
  /\ UNCHANGED << hw, irq, button, held, porta0, mainv, beepv, spinv, throwv,
                  fadev, a, figure, dc, timed_out, dims, edge_pc >>

\* sleep() returns, and so does wait_or_sleep.
sleep_return ==
  /\ pc = "sleep_ret"
  /\ pc' = "main_spin"
  /\ wait_idle
  /\ UNCHANGED << hw, irq, button, held, porta0, mainv, beepv, spinv, throwv,
                  fadev >>

\* ISR(PCINT1_vect): taken when the flag is pending, the group is enabled and
\* interrupts are on; the instruction that follows sei() is executed before
\* any pending interrupt.  Taking the vector clears the flag and wakes the
\* device; the handler runs sleep_disable(), set_low(PCMSK1, PCINT9) and
\* set_low(GIMSK, PCIE1), and reti turns interrupts on again.
ISR_PCINT1 ==
  /\ I /\ PCIE1 /\ PCIF1
  /\ pc # "sleep_cpu"
  /\ PCIF1' = FALSE
  /\ SE' = FALSE
  /\ PCINT9' = FALSE
  /\ PCIE1' = FALSE
  /\ I' = TRUE
  /\ pc' = IF pc = "sleeping" THEN "sleep_ret" ELSE pc
  /\ UNCHANGED << hw, sleep_rest >>

\* The button changes level while the pin-change logic is armed: the edge is
\* latched in PCIF1.  (While PCINT9 is clear a level change reaches the
\* program only through button_down, whose result is an input of the action
\* that reads it.)
button_edge ==
  /\ PCINT9
  /\ button' = ~button
  /\ PCIF1' = TRUE
  /\ edge_pc' = IF PCIF1 THEN edge_pc ELSE pc
  /\ UNCHANGED << pc, held, porta0, hw, I, PCINT9, PCIE1, SE, mainv, beepv,
                  spinv, throwv, fadev, a, figure, dc, timed_out, dims, sleeps >>


\* ------------------------------------------------------------------- main
\* DDRA = 0b0111111; DDRB = 0b0000001; sleep mode and ADC set up
main_init ==
  /\ pc = "main_init"
  /\ DDRA' = Bits(63)
  /\ DDRB' = Bits(1)
  /\ pc' = "welcome"
  /\ UNCHANGED << button, held, porta0, PORTA, PORTB, OCR0A, irq, mainv, beepv,
                  spinv, throwv, fadev, waitv >>

\* int16_t previous_seed = 0; int16_t seed = 1000;
main_locals ==
  /\ pc = "main_locals"
  /\ previous_seed' = 0
  /\ seed' = 1000
  /\ pc' = "wait"
  /\ UNCHANGED << button, held, porta0, hw, irq, beepv, spinv, throwv, fadev,
                  waitv >>

\* ------------------------------------------------------------------- spin
\* spin_frame with a frame every 16 increments.
spin_frame_16(s) == spin_sequence[((s \div 16) % Len(spin_sequence)) + 1]

\* spin_sequence[seed / 32 % sizeof(spin_sequence)]
spin_frame(s) == spin_sequence[((s \div 32) % Len(spin_sequence)) + 1]

\* main calls spin(seed)
main_spin ==
  /\ pc = "main_spin"
  /\ sp_seed' = seed
  /\ s0' = seed
  /\ k' = 0
  /\ porta0' = PORTA
  /\ portb0' = PORTB
  /\ pc' = "spin"
  /\ UNCHANGED << button, held, hw, irq, mainv, beepv, throwv, fadev, waitv >>

\* One evaluation of while (button_down()): pressed, the frame is displayed
\* and seed incremented; released, spin returns and main stores the result.
spin_poll ==
  /\ pc = "spin"
  /\ \E b \in BOOLEAN :
       /\ b => held < MaxHold
       /\ button_down(b)
       /\ IF b
            THEN /\ PORTA' = spin_frame(sp_seed)
                 /\ sp_seed' = U16(sp_seed + 1)
                 /\ k' = k + 1
                 /\ held' = held + 1
                 /\ pc' = "spin"
                 /\ UNCHANGED seed
            ELSE /\ seed' = sp_seed
                 /\ pc' = "main_throw"
                 /\ UNCHANGED << PORTA, sp_seed, k, held >>
  /\ UNCHANGED << porta0, DDRA, PORTB, DDRB, OCR0A, I, PCINT9, PCIE1, SE,
                  previous_seed, beepv, s0, portb0, throwv, fadev, waitv >>

\* ------------------------------------------------------------------ throw
\* throw_duration without the clamp.
throw_duration_unclamped(s, p) == U16(s - p)

\* throw_duration clamping one too late.
throw_duration_late(s, p) ==
  LET d == U16(s - p) IN IF d > 1024 THEN 1024 ELSE d

\* uint16_t duration = seed - previous_seed; if (duration > 1023) duration = 1023;
throw_duration(s, p) ==
  LET d == U16(s - p) IN IF d > 1023 THEN 1023 ELSE d

\* throw_delay0 growing with the duration.
throw_delay0_rising(d) == U16(4 + (U16(d * 64) \div 1024))

\* uint16_t delay = 68 - duration * 64 / 1024;
throw_delay0(d) == U16(68 - (U16(d * 64) \div 1024))

\* int16_t stop_at = 250 + (seed % 128) * 4;
throw_stop_at(s) == 250 + ((s % 128) * 4)

\* A variant of throw_quotient that takes the remainder modulo 7.
throw_quotient_mod7(s) == 1 + ((s \div 4) % 7)

\* int8_t quotient = 1 + (seed / 4) % 6;
throw_quotient(s) == 1 + ((s \div 4) % 6)

\* throw_step without the additive 3.
throw_step_nofloor(d, q) == U16(d + (d \div q))

\* delay += 3 + delay / quotient;
throw_step(d, q) == U16(d + 3 + (d \div q))

\* next_face wrapping to 1.
next_face_wrap1(f) == IF f + 1 >= FACES THEN 1 ELSE f + 1

\* face++; if (face >= FACES) face = 0;
next_face(f) == IF f + 1 >= FACES THEN 0 ELSE f + 1

\* main calls throw(seed, previous_seed)
main_throw ==
  /\ pc = "main_throw"
  /\ t_seed' = seed
  /\ t_prev' = previous_seed
  /\ porta0' = PORTA
  /\ face' = 0 /\ stop_at' = 0 /\ quotient' = 0 /\ duration' = 0 /\ delay' = 0
  /\ delay0' = 0 /\ n' = 0 /\ shown' = 0 /\ beeps' = 0 /\ last_beep' = 0
  /\ ret' = "none"
  /\ pc' = "throw_init"
  /\ UNCHANGED << button, held, hw, irq, mainv, beepv, spinv, fadev, waitv >>

\* the declarations of throw: face, stop_at, quotient, duration, delay
throw_init ==
  /\ pc = "throw_init"
  /\ face' = t_seed % FACES
  /\ stop_at' = throw_stop_at(t_seed)
  /\ quotient' = throw_quotient(t_seed)
  /\ duration' = throw_duration(t_seed, t_prev)
  /\ delay' = throw_delay0(throw_duration(t_seed, t_prev))
  /\ delay0' = throw_delay0(throw_duration(t_seed, t_prev))
  /\ pc' = "throw_loop"
  /\ UNCHANGED << button, held, porta0, hw, irq, mainv, beepv, spinv, fadev,
                  waitv, t_seed, t_prev, n, shown, beeps, last_beep, ret >>

\* while (delay < stop_at): the delay grows and the busy-wait begins; when the
\* test fails, beep(20) is called.
throw_loop ==
  /\ pc = "throw_loop"
  /\ IF delay < stop_at
       THEN /\ delay' = throw_step(delay, quotient)
            /\ pc' = "throw_wait"
            /\ UNCHANGED beepv
       ELSE /\ call_beep(20, "throw_false")
            /\ UNCHANGED delay
  /\ UNCHANGED << button, held, porta0, hw, irq, mainv, spinv, fadev, waitv,
                  t_seed, t_prev, face, stop_at, quotient, duration, delay0,
                  n, shown, beeps, last_beep, ret >>

\* throw_wait with the button looked at after the frame: a pressed sample
\* still lets the face be written before throw returns true.
throw_wait_late ==
  /\ pc = "throw_wait"
  /\ \/ /\ delay > 0
        /\ button_down(TRUE)
        /\ ret' = "true"
        /\ PORTA' = faces[face + 1]
        /\ shown' = shown + 1
        /\ pc' = "main_after_throw"
     \/ /\ IF delay > 0 THEN button_down(FALSE)
                        ELSE UNCHANGED << button, PCIF1 >>
        /\ pc' = "throw_show"
        /\ UNCHANGED << ret, PORTA, shown >>
  /\ UNCHANGED << held, porta0, DDRA, PORTB, DDRB, OCR0A, I, PCINT9, PCIE1, SE,
                  mainv, beepv, spinv, fadev, waitv, t_seed, t_prev, face,
                  stop_at, quotient, duration, delay, delay0, n, beeps,
                  last_beep >>

\* for (i = 0; i < delay; i++) { _delay_us(1000); if (button_down()) return true; }
\* Either one of the delay ticks samples the button pressed and throw returns
\* true at that tick, or every tick samples it released.
throw_wait ==
  /\ pc = "throw_wait"
  /\ \/ /\ delay > 0
        /\ button_down(TRUE)
        /\ ret' = "true"
        /\ pc' = "main_after_throw"
     \/ /\ IF delay > 0 THEN button_down(FALSE)
                        ELSE UNCHANGED << button, PCIF1 >>
        /\ pc' = "throw_show"
        /\ UNCHANGED ret
  /\ UNCHANGED << held, porta0, hw, I, PCINT9, PCIE1, SE, mainv, beepv, spinv,
                  fadev, waitv, t_seed, t_prev, face, stop_at, quotient,
                  duration, delay, delay0, n, shown, beeps, last_beep >>

\* display_figure(faces[face]); beep(3);
throw_show ==
  /\ pc = "throw_show"
  /\ PORTA' = faces[face + 1]
  /\ shown' = shown + 1
  /\ call_beep(3, "throw_next")
  /\ UNCHANGED << button, held, porta0, DDRA, PORTB, DDRB, OCR0A, irq, mainv,
                  spinv, fadev, waitv, t_seed, t_prev, face, stop_at, quotient,
                  duration, delay, delay0, n, beeps, last_beep, ret >>

\* face++ with its wrap: the end of one loop iteration
throw_next ==
  /\ pc = "throw_next"
  /\ face' = next_face(face)
  /\ n' = n + 1
  /\ pc' = "throw_loop"
  /\ UNCHANGED << button, held, porta0, hw, irq, mainv, beepv, spinv, fadev,
                  waitv, t_seed, t_prev, stop_at, quotient, duration, delay,
                  delay0, shown, beeps, last_beep, ret >>

\* return false
throw_false ==
  /\ pc = "throw_false"
  /\ ret' = "false"
  /\ pc' = "main_after_throw"
  /\ UNCHANGED << button, held, porta0, hw, irq, mainv, beepv, spinv, fadev,
                  waitv, t_seed, t_prev, face, stop_at, quotient, duration,
                  delay, delay0, n, shown, beeps, last_beep >>

\* main_after_throw with the test inverted: fade after an interrupted throw.
main_after_throw_inverted ==
  /\ pc = "main_after_throw"
  /\ pc' = IF ret = "true" THEN "fade" ELSE "main_prev"
  /\ throw_idle
  /\ porta0' = 0
  /\ UNCHANGED << button, held, hw, irq, mainv, beepv, spinv, fadev, waitv >>

\* if (!throw(seed, previous_seed)) fade();
main_after_throw ==
  /\ pc = "main_after_throw"
  /\ pc' = IF ret = "false" THEN "fade" ELSE "main_prev"
  /\ throw_idle
  /\ porta0' = 0
  /\ UNCHANGED << button, held, hw, irq, mainv, beepv, spinv, fadev, waitv >>

\* A variant of main_prev that leaves previous_seed as it is.
main_prev_stale ==
  /\ pc = "main_prev"
  /\ pc' = "wait"
  /\ UNCHANGED << button, held, porta0, hw, irq, mainv, beepv, spinv, throwv,
                  fadev, waitv >>

\* previous_seed = seed; and the loop starts over with wait_or_sleep()
main_prev ==
  /\ pc = "main_prev"
  /\ previous_seed' = seed
  /\ pc' = "wait"
  /\ UNCHANGED << button, held, porta0, hw, irq, seed, beepv, spinv, throwv,
                  fadev, waitv >>

\* ------------------------------------------------------------------- fade
\* fade_duty walking the table upwards.
fade_duty_up(v) == intensity_table[Len(intensity_table) - v]

\* pgm_read_byte(&(intensity_table[value]))
fade_duty(v) == intensity_table[v + 1]

\* _delay_ms(500) and _delay_ms(1200 / sizeof(intensity_table))
FadeHoldMs == 500
FadeStepMs == 1200 \div Len(intensity_table)

\* What the button does during a delay of ms milliseconds, in which fade does
\* not read it: 0, it does not go down; otherwise the time from its going
\* down to the end of the delay: 1 (at the last tick) or ms (at the first).
PressTicks(ms) == { 0, 1, ms }

Max(x, y) == IF x >= y THEN x ELSE y

\* PB2 made an output, the timer set to PWM, OCR0A = 255, _delay_ms(500),
\* and value initialised to sizeof(intensity_table) - 1
fade_start ==
  /\ pc = "fade"
  /\ \E t \in PressTicks(FadeHoldMs) : unseen' = t
  /\ DDRB' = set_high(DDRB, PB2)
  /\ OCR0A' = 255
  /\ duty_first' = 255
  /\ duty_down' = TRUE
  /\ value' = Len(intensity_table) - 1
  /\ pc' = "fade_loop"
  /\ UNCHANGED << button, held, porta0, PORTA, DDRA, PORTB, irq, mainv, beepv,
                  spinv, throwv, waitv >>

\* A variant of fade_loop that tests only value >= 0.
fade_loop_deaf ==
  /\ pc = "fade_loop"
  /\ IF value >= 0
       THEN \E b \in BOOLEAN :
              /\ button_down(b)
              /\ OCR0A' = fade_duty(value)
              /\ duty_down' = (duty_down /\ fade_duty(value) <= OCR0A)
              /\ \E t \in PressTicks(FadeStepMs) : unseen' = Max(unseen, t)
              /\ value' = value - 1
              /\ pc' = "fade_loop"
       ELSE /\ pc' = "fade_end"
            /\ UNCHANGED << button, PCIF1, OCR0A, duty_down, value, unseen >>
  /\ UNCHANGED << held, porta0, PORTA, DDRA, PORTB, DDRB, I, PCINT9, PCIE1, SE,
                  mainv, beepv, spinv, throwv, waitv, duty_first >>

\* One evaluation of value >= 0 && !button_down(), and the loop body when it
\* holds: OCR0A = intensity_table[value], the delay, value--.
fade_loop ==
  /\ pc = "fade_loop"
  /\ IF value >= 0
       THEN \E b \in BOOLEAN :
              /\ button_down(b)
              /\ IF ~b
                   THEN /\ OCR0A' = fade_duty(value)
                        /\ duty_down' = (duty_down /\ fade_duty(value) <= OCR0A)
                        /\ \E t \in PressTicks(FadeStepMs) :
                             unseen' = Max(unseen, t)
                        /\ value' = value - 1
                        /\ pc' = "fade_loop"
                   ELSE /\ pc' = "fade_end"
                        /\ UNCHANGED << OCR0A, duty_down, value, unseen >>
       ELSE /\ pc' = "fade_end"
            /\ UNCHANGED << button, PCIF1, OCR0A, duty_down, value, unseen >>
  /\ UNCHANGED << held, porta0, PORTA, DDRA, PORTB, DDRB, I, PCINT9, PCIE1, SE,
                  mainv, beepv, spinv, throwv, waitv, duty_first >>

\* A variant of fade_end that returns without set_low(DDRB, PB2).
fade_end_driven ==
  /\ pc = "fade_end"
  /\ pc' = "main_prev"
  /\ fade_idle
  /\ UNCHANGED << button, held, porta0, hw, irq, mainv, beepv, spinv, throwv, waitv >>

\* set_low(DDRB, PB2), and fade returns
fade_end ==
  /\ pc = "fade_end"
  /\ DDRB' = set_low(DDRB, PB2)
  /\ pc' = "main_prev"
  /\ fade_idle
  /\ UNCHANGED << button, held, porta0, PORTA, DDRA, PORTB, OCR0A, irq, mainv,
                  beepv, spinv, throwv, waitv >>

\* ---------------------------------------------------------- the program
Next ==
  \/ main_init \/ welcome_on \/ welcome_off \/ main_locals
  \/ beep_on \/ beep_off
  \/ wait_active \/ dim_on \/ dim_off
  \/ sleep_clear \/ sleep_cli \/ sleep_pcmsk \/ sleep_gimsk \/ sleep_enable
  \/ sleep_sei \/ sleep_cpu \/ sleep_return
  \/ ISR_PCINT1 \/ button_edge
  \/ main_spin \/ spin_poll
  \/ main_throw \/ throw_init \/ throw_loop \/ throw_wait \/ throw_show
  \/ throw_next \/ throw_false \/ main_after_throw \/ main_prev
  \/ fade_start \/ fade_loop \/ fade_end

Spec == Init /\ [][Next]_vars


\* ------------------------------------------------ the phases on their own
\* Registers and locals as main's initialisation and a finished loop round
\* leave them; the specifications below start a single phase from here.
Settled ==
  /\ held = 0
  /\ DDRA = Bits(63) /\ PORTB = {} /\ DDRB = Bits(1) /\ OCR0A = 0
  /\ PCINT9 = FALSE /\ PCIE1 = FALSE /\ SE = FALSE /\ PCIF1 = FALSE
  /\ len = 0 /\ beep_ret = "none"
  /\ sp_seed = 0 /\ s0 = 0 /\ k = 0 /\ porta0 = 0 /\ portb0 = {}
  /\ t_seed = 0 /\ t_prev = 0 /\ face = 0 /\ stop_at = 0 /\ quotient = 0
  /\ duration = 0 /\ delay = 0 /\ delay0 = 0 /\ n = 0 /\ shown = 0
  /\ beeps = 0 /\ last_beep = 0 /\ ret = "none"
  /\ value = 0 /\ duty_first = -1 /\ duty_down = TRUE /\ unseen = 0
  /\ a = 0 /\ figure = 0 /\ dc = 0 /\ timed_out = FALSE
  /\ dims = 0 /\ sleeps = 0 /\ edge_pc = "none"

\* Seeds handed to throw: the scenarios of the design (4, 24, 1063, 3000), the
\* seeds with the longest throws (116, 383), the seed whose delay grows
\* largest (121), and the ends of the 16-bit range.
ThrowSeeds == { 0, 4, 24, 116, 121, 383, 1000, 1063, 3000, 32768, 65535 }

\* Hold durations (seed - previous_seed modulo 2^16) around the clamp at 1023,
\* around the steps of duration * 64 / 1024, and past the wrap.
ThrowHolds == { 0, 1, 15, 16, 17, 50, 400, 512, 1008, 1022, 1023, 1024, 2000, 40000, 65535 }

\* The values of previous_seed tried with seed s: s less each hold, and main's
\* initial 0.
ThrowPrevs(s) == { U16(s - d) : d \in ThrowHolds } \cup { 0 }

\* throw alone: main is about to call throw(seed, previous_seed).
InitThrow ==
  /\ pc = "main_throw"
  /\ seed \in ThrowSeeds
  /\ previous_seed \in ThrowPrevs(seed)
  /\ PORTA \in { 0, spin_sequence[1] }
  /\ button = FALSE
  /\ I = FALSE
  /\ Settled

NextThrow ==
  \/ main_throw \/ throw_init \/ throw_loop \/ throw_wait \/ throw_show
  \/ throw_next \/ throw_false \/ beep_on \/ beep_off

SpecThrow == InitThrow /\ [][NextThrow]_vars

\* Seeds handed to spin: around a frame change (32), around the wrap of the
\* frame index (192), around the wrap of the seed, and a few in between.
SpinSeeds == { 0, 30, 31, 32, 190, 191, 192, 1000, 1023, 32767, 65534, 65535 }

\* spin alone: main is about to call spin(seed).
InitSpin ==
  /\ pc = "main_spin"
  /\ seed \in SpinSeeds
  /\ previous_seed = seed
  /\ PORTA \in { 0, faces[1], faces[6] }
  /\ button = TRUE
  /\ I = FALSE
  /\ Settled

NextSpin == main_spin \/ spin_poll

SpecSpin == InitSpin /\ [][NextSpin]_vars

\* fade alone: throw has returned false and main is about to call fade().
InitFade ==
  /\ pc = "fade"
  /\ seed = 1000 /\ previous_seed = 0
  /\ PORTA \in { faces[i] : i \in 1..FACES }
  /\ button = FALSE
  /\ I \in BOOLEAN
  /\ Settled

NextFade == fade_start \/ fade_loop \/ fade_end

SpecFade == InitFade /\ [][NextFade]_vars

\* wait_or_sleep alone: main is about to call wait_or_sleep(), with the display
\* as welcome, sleep, throw or spin left it, before or after a first sleep.
InitIdle ==
  /\ pc = "wait"
  /\ seed = 1000 /\ previous_seed \in { 0, 1000 }
  /\ PORTA \in { 0, spin_sequence[1] } \cup { faces[i] : i \in 1..FACES }
  /\ button = FALSE
  /\ I \in BOOLEAN
  /\ Settled

\* The steps of the foreground inside wait_or_sleep and sleep.
IdleForeground ==
  \/ wait_active \/ dim_on \/ dim_off
  \/ sleep_clear \/ sleep_cli \/ sleep_pcmsk \/ sleep_gimsk \/ sleep_enable
  \/ sleep_sei \/ sleep_cpu \/ sleep_return

NextIdle == IdleForeground \/ ISR_PCINT1 \/ button_edge

SpecIdle == InitIdle /\ [][NextIdle]_vars

\* The processor keeps executing instructions, and a pending enabled interrupt
\* is taken; nothing is assumed of the button.
FairIdle == SpecIdle /\ WF_vars(IdleForeground) /\ WF_vars(ISR_PCINT1)



\* The main loop from the middle of a hold, in a round after the first: spin
\* was entered with seed equal to previous_seed (as main_prev leaves them) and
\* has so far sampled the button pressed k times.
CarrySeeds == { 1000, 65535 }

\* Increments made so far by the running spin: none, around the first step of
\* duration * 64 / 1024, around the clamp, and more than 2^16.
CarryHolds == { 0, 15, 16, 1023, 1024, 65541 }

InitCarry ==
  /\ pc = "spin"
  /\ previous_seed \in CarrySeeds /\ seed = previous_seed
  /\ s0 = seed /\ k \in CarryHolds /\ sp_seed = U16(s0 + k)
  /\ held = (IF k < MaxHold THEN k ELSE MaxHold)
  /\ button = (k > 0)
  /\ PORTA = (IF k > 0 THEN spin_frame(U16(s0 + k - 1)) ELSE 0)
  /\ porta0 = 0 /\ portb0 = {}
  /\ DDRA = Bits(63) /\ PORTB = {} /\ DDRB = Bits(1) /\ OCR0A = 0
  /\ I = FALSE /\ PCINT9 = FALSE /\ PCIE1 = FALSE /\ SE = FALSE /\ PCIF1 = FALSE
  /\ len = 0 /\ beep_ret = "none"
  /\ t_seed = 0 /\ t_prev = 0 /\ face = 0 /\ stop_at = 0 /\ quotient = 0
  /\ duration = 0 /\ delay = 0 /\ delay0 = 0 /\ n = 0 /\ shown = 0
  /\ beeps = 0 /\ last_beep = 0 /\ ret = "none"
  /\ value = 0 /\ duty_first = -1 /\ duty_down = TRUE /\ unseen = 0
  /\ a = 0 /\ figure = 0 /\ dc = 0 /\ timed_out = FALSE
  /\ dims = 0 /\ sleeps = 0 /\ edge_pc = "none"

\* The steps of main's loop and of everything it calls.
NextCarry ==
  \/ wait_active \/ dim_on \/ dim_off
  \/ sleep_clear \/ sleep_cli \/ sleep_pcmsk \/ sleep_gimsk \/ sleep_enable
  \/ sleep_sei \/ sleep_cpu \/ sleep_return \/ ISR_PCINT1 \/ button_edge
  \/ main_spin \/ spin_poll
  \/ main_throw \/ throw_init \/ throw_loop \/ throw_wait \/ throw_show
  \/ throw_next \/ throw_false \/ beep_on \/ beep_off
  \/ main_after_throw \/ main_prev
  \/ fade_start \/ fade_loop \/ fade_end

SpecCarry == InitCarry /\ [][NextCarry]_vars

\* ============================================================ properties

\* The phase the device is in.  The steps of main between two calls belong to
\* the phase that has just ended, except previous_seed = seed, after which
\* only wait_or_sleep remains; beep belongs to its caller.
phase ==
  IF pc \in { "main_init", "welcome", "welcome_off", "main_locals" } THEN "BOOT"
  ELSE IF pc \in { "beep", "beep_delay" }
    THEN (IF beep_ret = "welcome_off" THEN "BOOT" ELSE "THROWING")
  ELSE IF pc \in { "wait", "dim_on", "dim_off", "sleep_clear", "sleep_cli",
                   "sleep_pcmsk", "sleep_gimsk", "sleep_enable", "sleep_sei",
                   "sleep_cpu", "sleeping", "sleep_ret", "main_spin",
                   "main_prev" } THEN "IDLE"
  ELSE IF pc \in { "spin", "main_throw" } THEN "SPINNING"
  ELSE IF pc \in { "throw_init", "throw_loop", "throw_wait", "throw_show",
                   "throw_next", "throw_false", "main_after_throw" } THEN "THROWING"
  ELSE "FADING"

PhaseSteps ==
  { << "BOOT", "IDLE" >>, << "IDLE", "SPINNING" >>, << "SPINNING", "THROWING" >>,
    << "THROWING", "FADING" >>, << "THROWING", "IDLE" >>, << "FADING", "IDLE" >> }

C1_Step ==
  phase' # phase =>
    /\ << phase, phase' >> \in PhaseSteps
    /\ (phase = "THROWING" /\ phase' = "FADING") => ret = "false"
    /\ (phase = "THROWING" /\ phase' = "IDLE") => ret = "true"

\* C1: the main loop never ends (some step is always possible), the phase
\* changes only IDLE->SPINNING, SPINNING->THROWING, THROWING->FADING,
\* THROWING->IDLE and FADING->IDLE (after BOOT->IDLE once), and the phase that
\* follows a throw is FADING exactly when the throw returned false.
C1_PhaseOrder == [](ENABLED Next) /\ [][C1_Step]_vars

\* C1 witness: a fade running after a completed throw, in a round after the first.
C1_Witness == pc = "fade_loop" /\ previous_seed # 0

\* The display a throw shows after m complete iterations from seed s, when it
\* showed p at entry.
ShownAfter(s, m, p) == IF m = 0 THEN p ELSE faces[(((s % 6) + m - 1) % 6) + 1]

C2_Step ==
  (pc = "throw_wait" /\ button') =>
    /\ pc' = "main_after_throw"
    /\ ret' = "true"
    /\ PORTA' = PORTA /\ PORTB' = PORTB
    /\ shown' = shown /\ beeps' = beeps

C2_Returned ==
  (pc = "main_after_throw" /\ ret = "true") =>
    /\ shown = n /\ beeps = n
    /\ BEEPER \notin PORTB
    /\ PORTA = ShownAfter(t_seed, n, porta0)

\* C2: a tick of throw's busy-wait that samples the button pressed makes throw
\* return true in that very step, writing no face and emitting no beep; an
\* interrupted throw has shown and beeped once per completed iteration only,
\* and the display still holds the pattern it had before the press.
C2_CancelFirst == []C2_Returned /\ [][C2_Step]_vars

\* C2 witness: a throw interrupted in its sixth iteration, five faces shown.
C2_Witness == pc = "main_after_throw" /\ ret = "true" /\ n = 5 /\ shown = 5

\* C3: throw never runs more than 40 iterations, its loop test holds at entry
\* (at least one iteration), and a throw that returns false has run 1..40
\* iterations and emitted the 20 ms beep last.
C3_ThrowTerminates ==
  /\ n <= 40
  /\ (pc = "throw_loop" /\ n = 0) => delay < stop_at
  /\ (pc = "main_after_throw" /\ ret = "false") =>
       /\ n >= 1 /\ n <= 40
       /\ last_beep = 20
       /\ beeps = n + 1
       /\ delay >= stop_at

\* C3 witness: the longest throw (24 iterations) has returned false.
C3_Witness == pc = "main_after_throw" /\ ret = "false" /\ n = 24

\* C4: in spin and at its return the seed is (s + k) mod 2^16 after k pressed
\* samples, the display holds spin_sequence[(((s + k - 1) mod 2^16) / 32) mod 6]
\* (the k-th frame drawn) or, for k = 0, what it held at entry, and the beeper
\* port is what it was at entry; main receives (s + k) mod 2^16.
C4_SpinDeterminism ==
  (pc \in { "spin", "main_throw" }) =>
    /\ sp_seed = (s0 + k) % 65536
    /\ k > 0 => PORTA = spin_sequence[((((s0 + k - 1) % 65536) \div 32) % 6) + 1]
    /\ k = 0 => PORTA = porta0
    /\ PORTB = portb0
    /\ pc = "main_throw" => seed = (s0 + k) % 65536

\* C4 witness: spin entered with 65535 has returned after two increments.
C4_Witness == pc = "main_throw" /\ s0 = 65535 /\ k = 2 /\ seed = 1


SleepPcs ==
  { "sleep_clear", "sleep_cli", "sleep_pcmsk", "sleep_gimsk", "sleep_enable",
    "sleep_sei", "sleep_cpu", "sleeping", "sleep_ret" }

C5_State ==
  /\ pc \in { "dim_on", "dim_off" } => (timed_out /\ dims = a /\ a <= 127 /\ sleeps = 0)
  /\ pc = "dim_off" => a < 127
  /\ pc \in SleepPcs => (timed_out /\ dims = 127)
  /\ pc \in SleepPcs \ { "sleeping", "sleep_ret" } => sleeps = 0
  /\ pc \in { "sleeping", "sleep_ret" } => sleeps = 1

C5_Step ==
  /\ (pc = "wait" /\ ~button') => pc' = "dim_on"
  /\ (pc \in { "wait", "dim_off" } /\ button') => (pc' = "main_spin" /\ sleeps = 0)
  /\ (pc = "sleeping" /\ pc' # pc) => (pc' = "sleep_ret" /\ ~PCINT9' /\ ~SE')
  /\ (pc = "sleep_ret" /\ pc' # pc) => pc' = "main_spin"
  /\ (pc = "main_spin" /\ pc' # pc) => pc' = "spin"

\* C5: an active wait without a pressed sample is followed by the dim; the
\* sleep sequence is entered only after 127 dim cycles, none of which sampled
\* the button pressed; the device is put to sleep once in the call; it leaves
\* sleep only by the pin-change handler, after which wait_or_sleep returns and
\* main calls spin; a pressed sample in the active wait or the dim makes
\* wait_or_sleep return in that step, without any sleep.
C5_SleepSequence == []C5_State /\ [][C5_Step]_vars

\* C5 witness: woken from the one sleep of a call that dimmed 127 cycles.
C5_Witness == pc = "sleep_ret" /\ timed_out /\ dims = 127 /\ sleeps = 1

\* C6: a pin change latched at any point after PCINT9 was set leads to the
\* device being awake after sleep(), the handler having run: no latched
\* change is left pending with the device asleep.
C6_NoLostWakeup == PCIF1 ~> (pc = "sleep_ret" /\ ~PCIF1 /\ ~SE)

\* C6 witness: the device woke from a pin change that was latched before the
\* sleep instruction was executed.
C6_Witness ==
  /\ pc = "sleep_ret"
  /\ edge_pc \in { "sleep_gimsk", "sleep_enable", "sleep_sei", "sleep_cpu" }

\* min((seed - previous_seed) mod 2^16, 1023)
HoldOf(s, p) == IF (s - p) % 65536 > 1023 THEN 1023 ELSE (s - p) % 65536

InThrowLoop == pc \in { "throw_loop", "throw_wait", "throw_show", "throw_next", "throw_false" }

\* C7 as stated: delay0 = 68 - duration*64/1024 lies in [4, 68], is 68 for
\* duration 0 and 4 for a duration of 1023 or more.
C7_Original ==
  InThrowLoop =>
    /\ duration = HoldOf(t_seed, t_prev)
    /\ delay0 = 68 - ((duration * 64) \div 1024)
    /\ delay0 >= 4 /\ delay0 <= 68
    /\ duration = 0 => delay0 = 68
    /\ (t_seed - t_prev) % 65536 >= 1023 => delay0 = 4

\* C7 amended: delay0 = 68 - duration*64/1024 lies in [5, 68], is 68 for
\* duration 0 and 5 for a duration of 1023 or more (1023*64/1024 is 63).
C7_InitialDelay ==
  InThrowLoop =>
    /\ duration = HoldOf(t_seed, t_prev)
    /\ delay0 = 68 - ((duration * 64) \div 1024)
    /\ delay0 >= 5 /\ delay0 <= 68
    /\ duration = 0 => delay0 = 68
    /\ (t_seed - t_prev) % 65536 >= 1023 => delay0 = 5

\* C7 witness: a hold of 2000 increments, clamped to 1023, starts from delay 5.
C7_Witness ==
  /\ pc = "throw_loop" /\ n = 0
  /\ (t_seed - t_prev) % 65536 = 2000 /\ duration = 1023 /\ delay0 = 5

\* The number of iterations of throw's loop from delay d, computed by the
\* loop's own test and step.
RECURSIVE throw_iterations(_, _, _)
throw_iterations(d, stop, q) ==
  IF d < stop THEN 1 + throw_iterations(throw_step(d, q), stop, q) ELSE 0

\* Iterations of an uninterrupted throw(s, p).
IterationsOf(s, p) ==
  throw_iterations(throw_delay0(throw_duration(s, p)), throw_stop_at(s), throw_quotient(s))

ThrowCompleted == pc = "main_after_throw" /\ ret = "false"

\* C8 as stated: after N iterations the display holds faces[(seed mod 6 + N)
\* mod 6], and N is fixed by the seed alone.
C8_Original ==
  ThrowCompleted =>
    /\ PORTA = faces[(((t_seed % 6) + n) % 6) + 1]
    /\ \A p \in ThrowPrevs(t_seed) : IterationsOf(t_seed, p) = n

\* C8 amended: after N iterations the display holds faces[(seed mod 6 + N - 1)
\* mod 6], the face of the last iteration, and N is the function of seed and
\* previous_seed that the loop computes.
C8_FinalFace ==
  ThrowCompleted =>
    /\ n >= 1
    /\ shown = n
    /\ PORTA = faces[(((t_seed % 6) + n - 1) % 6) + 1]
    /\ face = ((t_seed % 6) + n) % 6
    /\ n = IterationsOf(t_seed, t_prev)

\* C8 witness: throw(1063, 0) has completed, after 10 iterations.
C8_Witness == ThrowCompleted /\ t_seed = 1063 /\ t_prev = 0 /\ n = 10

\* C9 as stated: for every previous_seed p2 above the one used, the initial
\* delay is not smaller and the iterations are not more.
C9_Original ==
  ThrowCompleted =>
    \A p2 \in ThrowPrevs(t_seed) :
      t_prev < p2 =>
        /\ throw_delay0(throw_duration(t_seed, p2)) >= delay0
        /\ IterationsOf(t_seed, p2) <= n

\* p1 < p2 on the same side of the seed: the subtraction seed - previous_seed
\* wraps for both or for neither.
SameSide(s, p1, p2) == p1 < p2 /\ (p2 <= s \/ s < p1)

\* C9 amended: for previous_seed values p1 < p2 that are both at most seed or
\* both above it, the initial delay for p2 is not smaller and the iterations
\* for p2 are not more.
C9_Monotone ==
  ThrowCompleted =>
    \A p2 \in ThrowPrevs(t_seed) :
      /\ SameSide(t_seed, t_prev, p2) =>
           /\ throw_delay0(throw_duration(t_seed, p2)) >= delay0
           /\ IterationsOf(t_seed, p2) <= n
      /\ SameSide(t_seed, p2, t_prev) =>
           /\ throw_delay0(throw_duration(t_seed, p2)) <= delay0
           /\ IterationsOf(t_seed, p2) >= n

\* C9 witness: a completed throw for which a larger previous_seed, still below
\* the seed, gives a strictly larger initial delay and strictly fewer iterations.
C9_Witness ==
  /\ ThrowCompleted
  /\ \E p2 \in ThrowPrevs(t_seed) :
       /\ t_prev < p2 /\ p2 <= t_seed
       /\ throw_delay0(throw_duration(t_seed, p2)) > delay0
       /\ IterationsOf(t_seed, p2) < n

\* C10 as stated: the duties written by a call of fade start at 255, never
\* increase and end at 0.
C10_Original ==
  pc = "fade_end" => (duty_first = 255 /\ duty_down /\ OCR0A = 0)

\* C10 amended: the duties written by a call of fade start at 255 and never
\* increase; they end at 0 when fade runs to the end of the table, and at the
\* last entry written (or the initial 255) when a pressed button ends it early.
C10_FadeMonotone ==
  /\ pc \in { "fade_loop", "fade_end" } =>
       /\ duty_first = 255 /\ duty_down
       /\ value >= -1 /\ value <= 63
       /\ OCR0A = (IF value = 63 THEN 255 ELSE intensity_table[value + 2])
  /\ (pc = "fade_end" /\ value = -1) => OCR0A = 0
  /\ (pc = "fade_end" /\ value >= 0) => button

\* C10 witness: fade has run through the whole table and written 0 last.
C10_Witness == pc = "fade_end" /\ value = -1 /\ OCR0A = 0 /\ duty_first = 255

\* The pip bits of the display port: DOT_0 .. DOT_6.
PipBits == 0..6

\* C11: once main has set the pin directions, all seven pip pins (bits 0..6 of
\* port A) are outputs, the button pin is an input and the beeper pin an output,
\* so every pip bit set in a pattern on the display is a driven output.
\* main writes DDRA = 0b0111111, which is six ones: bit 6 (DOT_6) stays an
\* input, and welcome's 0b01111111 already sets it.
C11_PinDirections ==
  pc # "main_init" =>
    /\ PipBits \subseteq DDRA
    /\ BUTTON \notin DDRB
    /\ BEEPER \in DDRB
    /\ Bits(PORTA) \subseteq DDRA

\* Number of loop iterations of the uninterrupted throw whose seed is s and
\* whose hold (seed - previous_seed modulo 2^16) is h.
IterationsAfterHold(s, h) == IterationsOf(s, U16(s - h))

\* C12 as stated: quotient is 2 for seed 4 and 6 for seed 24, the throw with
\* seed 24 runs more iterations than the one with seed 4 after the same hold,
\* quotient is in [1, 6] and stop_at is in [250, 758].
C12_Original ==
  /\ InThrowLoop =>
       /\ t_seed = 4 => quotient = 2
       /\ t_seed = 24 => quotient = 6
       /\ quotient \in 1..6
       /\ stop_at \in 250..758
  /\ (ThrowCompleted /\ t_seed = 24) =>
       n > IterationsAfterHold(4, U16(t_seed - t_prev))

\* C12: throw computes quotient = 1 + (seed / 4) mod 6, which is 2 for seed 4
\* and 1 for seed 24 (24 / 4 = 6, 6 mod 6 = 0); after the same hold the
\* uninterrupted throw with seed 24 runs fewer loop iterations than the one
\* with seed 4; for every seed quotient is in [1, 6] and
\* stop_at = 250 + (seed mod 128) * 4 is in [250, 758].
C12_Quotient ==
  /\ InThrowLoop =>
       /\ quotient = 1 + ((t_seed \div 4) % 6)
       /\ stop_at = 250 + ((t_seed % 128) * 4)
       /\ t_seed = 4 => quotient = 2
       /\ t_seed = 24 => quotient = 1
       /\ quotient \in 1..6
       /\ stop_at \in 250..758
  /\ (ThrowCompleted /\ t_seed = 24) =>
       /\ n = IterationsOf(t_seed, t_prev)
       /\ n < IterationsAfterHold(4, U16(t_seed - t_prev))

\* C12 witness: the throw with seed 24 after a hold of 50 has run to its end
\* with quotient 1, in 3 iterations (seed 4 takes 4 after the same hold).
C12_Witness ==
  /\ ThrowCompleted /\ t_seed = 24 /\ t_prev = U16(24 - 50)
  /\ quotient = 1 /\ n = 3 /\ IterationsAfterHold(4, 50) = 4

\* The pip bits set in a pattern, and the pattern with its seven pip bits
\* reversed (bit b swapped with bit 6 - b).
PipsOf(x) == Bits(x) \cap PipBits
Reversed(x) == { 6 - b : b \in PipsOf(x) }

\* C13: for each face index i in 0..5 the pattern faces[i] has exactly i + 1
\* bits set, all among bits 0..6, and is unchanged by reversing its seven bits;
\* so has every face throw puts on the display.
C13_FaceTable ==
  /\ \A i \in 0..(FACES - 1) :
       /\ Bits(faces[i + 1]) \subseteq PipBits
       /\ Cardinality(PipsOf(faces[i + 1])) = i + 1
       /\ Reversed(faces[i + 1]) = PipsOf(faces[i + 1])
  /\ pc = "throw_next" =>
       /\ PORTA = faces[face + 1]
       /\ Cardinality(PipsOf(PORTA)) = face + 1
       /\ Reversed(PORTA) = PipsOf(PORTA)

\* C13 witness: throw has put the face of index 3 (four pips, the corners) on
\* the display.
C13_Witness ==
  /\ pc = "throw_next" /\ face = 3
  /\ Bits(PORTA) = { 0, 1, 5, 6 }

\* C14 as stated: fade samples the button at every millisecond, so a press at
\* any millisecond tick of fade is seen, and ends the phase, within one tick.
C14_Original == pc \in { "fade_loop", "fade_end" } => unseen <= 1

\* The fade phase samples the button only in its loop test.
C14_Step ==
  /\ pc = "fade" => (pc' = "fade_loop" /\ button' = button)
  /\ (pc = "fade_loop" /\ value >= 0 /\ button') =>
       (pc' = "fade_end" /\ OCR0A' = OCR0A /\ value' = value /\ unseen' = unseen)
  /\ (pc = "fade_loop" /\ value >= 0 /\ ~button') =>
       /\ pc' = "fade_loop" /\ value' = value - 1
       /\ unseen' <= Max(unseen, FadeStepMs)
  /\ (pc = "fade_loop" /\ value < 0) => (pc' = "fade_end" /\ button' = button)

\* C14: fade samples the button once before each of its 64 gamma steps, that
\* is every 18 ms, and never during the initial 500 ms hold.  A sample that
\* finds the button pressed ends the phase at once, before the duty of that
\* step is written; a sample that finds it released runs the step.  A press
\* is seen at the first sample after it at which the button is still down: up
\* to 500 ms after a press during the hold, up to 18 ms after a press during
\* a step.
C14_FadeCancel ==
  /\ [](pc \in { "fade_loop", "fade_end" } =>
          /\ unseen <= FadeHoldMs
          /\ unseen \in { 0, 1, FadeStepMs, FadeHoldMs })
  /\ [][C14_Step]_vars

\* C14 witness: the button went down at the first tick of the 500 ms hold and
\* fade ended at its first sample, 500 ms later, with no gamma step done.
C14_Witness ==
  /\ pc = "fade_end" /\ button /\ unseen = FadeHoldMs
  /\ value = Len(intensity_table) - 1 /\ OCR0A = 255

DimPcs == { "dim_on", "dim_off" }

\* The dim part of C15 that holds: the on-time is 32 - a / 4 slots, the
\* pattern drawn is the one the display held when the dim began, and it is
\* blanked in the second half of each cycle.
C15_Cycle ==
  /\ pc = "dim_off" =>
       /\ a \in 0..(DimCycles - 1) /\ dims = a
       /\ dc = 32 - (a \div 4)
       /\ PORTA = figure
       /\ a = 0 => dc = 32
  /\ (pc = "dim_on" /\ a = 0) => PORTA = figure
  /\ (pc = "dim_on" /\ a > 0) => PORTA = 0

C15_Step ==
  /\ (pc = "dim_on" /\ pc' = "dim_off" /\ a > 0) => dc' <= dc
  /\ (pc \in DimPcs /\ pc' \in DimPcs) => figure' = figure

\* C15 as stated: the on-time never increases, starts at 32/32 in the first
\* cycle and reaches 0/32 in the last; each cycle redraws the pattern that
\* was displayed when the dim began and then blanks it.
C15_Original ==
  /\ C15_Cycle
  /\ (pc = "dim_off" /\ a = DimCycles - 1) => dc = 0

\* C15: in the 127 software-PWM cycles of wait_or_sleep the on-time of cycle
\* a (0..126), in 32 slots of 255 us, is 32 - a / 4: it never increases from
\* one cycle to the next, is 32/32 in the first cycle and 1/32, not 0/32, in
\* the last; each cycle redraws the pattern that was on the display when the
\* dim began and then blanks it.
C15_DimRamp ==
  /\ [](/\ C15_Cycle
        /\ pc = "dim_off" => dc \in 1..32
        /\ (pc = "dim_off" /\ a = DimCycles - 1) => dc = 1)
  /\ [][C15_Step]_vars

\* C15 witness: the last dim cycle has drawn the six-pip face for 1 slot of 32.
C15_Witness ==
  /\ pc = "dim_off" /\ a = DimCycles - 1 /\ dims = 126
  /\ dc = 1 /\ figure = faces[6] /\ PORTA = faces[6]

\* Positions of sleep() from the arming of the pin change up to sei().
ArmingPcs == { "sleep_pcmsk", "sleep_gimsk", "sleep_enable", "sleep_sei" }

C16_State ==
  /\ pc \notin SleepPcs => (~PCINT9 /\ ~PCIE1)
  /\ pc \in ArmingPcs => ~I
  /\ ((PCINT9 \/ PCIE1) /\ pc \notin { "sleep_cpu", "sleeping" }) => ~I
  /\ (ENABLED ISR_PCINT1) => pc = "sleeping"

\* A step that clears the pin-change flag is the handler being taken.
C16_Step ==
  (PCIF1 /\ ~PCIF1') =>
    /\ pc = "sleeping" /\ pc' = "sleep_ret"
    /\ ~SE' /\ ~PCINT9' /\ ~PCIE1'
    /\ UNCHANGED << seed, previous_seed, PORTA, DDRA, PORTB, DDRB, OCR0A, button >>

\* C16: the pin-change handler can run only while the foreground is at the
\* sleep instruction: outside sleep() the button's mask bit and the group
\* enable are both clear; from their being set up to sei() the global
\* interrupt flag is off; and the handler only clears sleep-enable, the mask
\* bit and the group enable, leaving seed, display and beeper as they were.
C16_IsrConfined == []C16_State /\ [][C16_Step]_vars

\* C16 witness: the handler has woken the device in a round after the first
\* throw; mask bit, group enable and sleep-enable are clear again.
C16_Witness ==
  /\ pc = "sleep_ret" /\ I /\ ~PCIF1 /\ ~SE /\ ~PCINT9 /\ ~PCIE1
  /\ previous_seed = seed /\ seed > 1000 /\ PORTA = 0

FadePcs == { "fade", "fade_loop", "fade_end" }

C17_Step ==
  /\ pc \in FadePcs => (PORTA' = PORTA /\ DDRA' = DDRA /\ PORTB' = PORTB)
  /\ (pc \in FadePcs /\ pc' \notin FadePcs) =>
       (pc = "fade_end" /\ pc' = "main_prev" /\ PB2 \notin DDRB')

\* C17: fade never writes the pip display register, so the pattern displayed
\* at its entry is still displayed at its exit; and on every exit path, the
\* ramp completed or aborted by a pressed sample, the decoration PWM pin PB2
\* is an input again.
C17_FadeFrame ==
  /\ [](pc \notin FadePcs => PB2 \notin DDRB)
  /\ [](pc \in { "fade_loop", "fade_end" } => PB2 \in DDRB)
  /\ [][C17_Step]_vars

\* C17 witness: fade has returned after a pressed sample in the middle of the
\* ramp; the five-pip face is still displayed and PB2 is an input.
C17_Witness ==
  /\ pc = "main_prev" /\ button /\ OCR0A = fade_duty(32)
  /\ PORTA = faces[5] /\ PB2 \notin DDRB

\* Positions of main's loop after previous_seed = seed and before spin.
BetweenPcs == { "wait", "main_spin" } \cup DimPcs \cup SleepPcs

C18_State ==
  /\ pc \in BetweenPcs => previous_seed = seed
  /\ pc = "spin" => (s0 = previous_seed /\ sp_seed = U16(s0 + k))
  /\ pc = "main_throw" => seed = U16(previous_seed + k)
  /\ (pc \in { "throw_init", "main_after_throw" } \/ InThrowLoop) =>
       (t_seed = seed /\ t_prev = previous_seed /\ t_seed = U16(t_prev + k))
  /\ InThrowLoop =>
       /\ duration = (IF k % Word > 1023 THEN 1023 ELSE k % Word)
       /\ k % Word < 16 => delay0 = 68

C18_Step ==
  /\ (pc = "main_after_throw" /\ pc' # pc) =>
       (pc' \in { "fade", "main_prev" } /\ seed' = seed)
  /\ pc \in FadePcs => (seed' = seed /\ previous_seed' = previous_seed)
  /\ (pc = "main_prev" /\ pc' # pc) =>
       (previous_seed' = seed /\ seed' = seed /\ pc' = "wait")

\* C18: after every throw, completed or aborted, main sets previous_seed to
\* the seed that throw consumed; hence in every round after the first the
\* duration used by throw is min(k mod 2^16, 1023), k being the number of
\* increments spin made in the hold just before it, also when the seed wraps
\* past 2^16 during the hold; a hold of fewer than 16 increments starts the
\* throw at delay0 = 68.
C18_SeedCarry == []C18_State /\ [][C18_Step]_vars

\* C18 witness: a round begun with previous_seed = seed = 0, the value the seed
\* wrapped to in the hold of the round before; after a hold of one increment
\* throw runs with duration 1 and delay0 68.
C18_Witness ==
  /\ pc = "throw_loop" /\ n = 0
  /\ s0 = 0 /\ k = 1 /\ t_prev = 0 /\ t_seed = 1
  /\ duration = 1 /\ delay0 = 68

BeepPcs == { "beep", "beep_delay" }

C19_State ==
  /\ pc \notin BeepPcs => BEEPER \notin PORTB
  /\ pc = "beep" => BEEPER \notin PORTB
  /\ pc = "sleeping" => (PORTA = 0 /\ BEEPER \notin PORTB /\ PB2 \notin DDRB)

C19_Step ==
  /\ (pc \in BeepPcs /\ pc' \notin BeepPcs) => BEEPER \notin PORTB'
  /\ (pc = "throw_wait" /\ pc' = "main_after_throw") =>
       (ret' = "true" /\ BEEPER \notin PORTB')

\* C19: in every state outside the body of beep the beeper pin is low: beep
\* returns with it low whatever its length, and so does a throw aborted by a
\* pressed sample; and whenever the device is in deep sleep the pip display
\* register is 0, the beeper is low and the decoration PWM pin is an input.
C19_Quiescent == []C19_State /\ [][C19_Step]_vars

\* C19 witness: the device asleep in a round after a throw that beeped.
C19_Witness ==
  /\ pc = "sleeping" /\ SE /\ previous_seed = seed /\ seed > 1000
  /\ PORTA = 0 /\ PORTB = {} /\ PB2 \notin DDRB

\* The largest value delay can have when the loop test passes, and the bound
\* stated for the value after the step.
MaxDelayIn == (250 + (127 * 4)) - 1
MaxDelayOut == (2 * MaxDelayIn) + 3

C20_State ==
  InThrowLoop =>
    /\ duration \in 0..1023
    /\ duration * 64 <= 65535
    /\ 68 - ((duration * 64) \div 1024) >= 0
    /\ delay0 = 68 - ((duration * 64) \div 1024)
    /\ stop_at <= MaxDelayIn + 1
    /\ delay <= MaxDelayOut /\ delay < 32768

C20_Step ==
  (pc = "throw_loop" /\ pc' = "throw_wait") =>
    /\ delay < stop_at /\ delay <= MaxDelayIn
    /\ delay' = delay + 3 + (delay \div quotient)

\* C20: in throw no 16-bit operation wraps: duration * 64 never exceeds 65535,
\* 68 - duration * 64 / 1024 is never below 0, every step of delay gives the
\* exact sum delay + 3 + delay / quotient, and delay never exceeds
\* 2 * 757 + 3, so that it stays below 2^15 and the comparisons
\* delay < stop_at and i < delay are those of the plain integers.
C20_NoWrap == []C20_State /\ [][C20_Step]_vars

\* C20 witness: the largest delay any throw reaches: seed 121 after a hold of
\* 400 steps from 733 to 1469.
C20_Witness ==
  /\ pc = "throw_wait" /\ t_seed = 121 /\ duration = 400
  /\ quotient = 1 /\ delay = 1469

====
